---- MODULE Spec2Model ----
(***************************************************************************)
(* A model of app.py, the boat-issues report script: load_data,            *)
(* ai_cluster_issues, the three summaries behind the charts, the category  *)
(* browser and export_pdf, run top to bottom as the script runs them.      *)
(*                                                                         *)
(* Text is a sequence of one-character strings, so that strip, lower,      *)
(* title and replace are computed character by character.  A missing cell  *)
(* (pandas NaN) is the value NaN, a missing date (NaT) the value NaT.      *)
(***************************************************************************)
EXTENDS Integers, Sequences, FiniteSets, TLC

VARIABLES
    file,          \* the spreadsheet the script reads (uploaded or DEFAULT_FILE)
    pc,            \* the statement of the script that runs next
    df,            \* the working table
    error,         \* the exception that ended the run, if any
    clusters,      \* what KMeans.fit_predict returned, in text order
    top_issues,    \* the series plot_top_issues draws
    top_boats,     \* the series plot_top_boats draws
    timeline,      \* the series plot_timeline draws
    browser,       \* the category selectbox and the table under it
    pdf            \* the lines export_pdf wrote

vars == <<file, pc, df, error, clusters, top_issues, top_boats, timeline, browser, pdf>>

(***************************************************************************)
(* Characters and the str methods load_data uses.                          *)
(***************************************************************************)
UpperChars == <<"A","B","C","D","E","F","G","H","I","J","K","L","M",
                "N","O","P","Q","R","S","T","U","V","W","X","Y","Z">>

LowerChars == <<"a","b","c","d","e","f","g","h","i","j","k","l","m",
                "n","o","p","q","r","s","t","u","v","w","x","y","z">>

DigitChars == <<"0","1","2","3","4","5","6","7","8","9">>

NaN == <<"NaN">>

NaT == <<0, 0, 0>>

IndexOf(c, seq) ==
    IF \E i \in DOMAIN seq : seq[i] = c
    THEN CHOOSE i \in DOMAIN seq : seq[i] = c
    ELSE 0

IsUpper(c) == IndexOf(c, UpperChars) > 0

IsLower(c) == IndexOf(c, LowerChars) > 0

IsLetter(c) == IsUpper(c) \/ IsLower(c)

IsDigit(c) == IndexOf(c, DigitChars) > 0

IsSpace(c) == c \in {" ", "\t", "\n"}

lower_char(c) == IF IsUpper(c) THEN LowerChars[IndexOf(c, UpperChars)] ELSE c

upper_char(c) == IF IsLower(c) THEN UpperChars[IndexOf(c, LowerChars)] ELSE c

RECURSIVE lstrip(_)
lstrip(s) ==
    IF s = <<>> THEN <<>>
    ELSE IF IsSpace(Head(s)) THEN lstrip(Tail(s)) ELSE s

RECURSIVE rstrip(_)
rstrip(s) ==
    IF s = <<>> THEN <<>>
    ELSE IF IsSpace(s[Len(s)]) THEN rstrip(SubSeq(s, 1, Len(s) - 1)) ELSE s

strip(s) == rstrip(lstrip(s))

lower(s) == [i \in DOMAIN s |-> lower_char(s[i])]

title(s) ==
    [i \in DOMAIN s |->
        IF i = 1 \/ ~IsLetter(s[i - 1]) THEN upper_char(s[i]) ELSE lower_char(s[i])]

replace_space(s) == [i \in DOMAIN s |-> IF s[i] = " " THEN "_" ELSE s[i]]

\* Series.str.<method>: a missing cell stays missing.
str_strip(v) == IF v = NaN THEN NaN ELSE strip(v)

str_lower(v) == IF v = NaN THEN NaN ELSE lower(v)

str_title(v) == IF v = NaN THEN NaN ELSE title(v)

\* df.columns.str.strip().str.lower().str.replace(" ", "_")
normalize_column(name) == replace_space(lower(strip(name)))

(***************************************************************************)
(* pd.to_datetime(..., errors="coerce") on a text cell.  The cells of the  *)
(* model are ISO dates (YYYY-MM-DD) or text that is no date at all.        *)
(***************************************************************************)
digit(c) == IndexOf(c, DigitChars) - 1

RECURSIVE number(_)
number(s) == IF s = <<>> THEN 0 ELSE 10 * number(SubSeq(s, 1, Len(s) - 1)) + digit(s[Len(s)])

AllDigits(s) == \A i \in DOMAIN s : IsDigit(s[i])

IsLeap(y) == (y % 4 = 0 /\ y % 100 # 0) \/ y % 400 = 0

DaysInMonth(y, m) ==
    IF m = 2 THEN (IF IsLeap(y) THEN 29 ELSE 28)
    ELSE IF m \in {4, 6, 9, 11} THEN 30 ELSE 31

parse_iso(s) ==
    IF /\ Len(s) = 10
       /\ s[5] = "-" /\ s[8] = "-"
       /\ AllDigits(SubSeq(s, 1, 4))
       /\ AllDigits(SubSeq(s, 6, 7))
       /\ AllDigits(SubSeq(s, 9, 10))
    THEN LET y == number(SubSeq(s, 1, 4))
             m == number(SubSeq(s, 6, 7))
             d == number(SubSeq(s, 9, 10))
         IN  IF y >= 1 /\ m \in 1..12 /\ d \in 1..DaysInMonth(y, m)
             THEN <<y, m, d>> ELSE NaT
    ELSE NaT

\* Mutant of to_datetime: a date that does not parse is given a default date
\* instead of NaT.
to_datetime_filled(cell) ==
    IF cell = NaN THEN NaT
    ELSE IF parse_iso(strip(cell)) = NaT THEN <<1970, 1, 1>> ELSE parse_iso(strip(cell))

to_datetime(cell) == IF cell = NaN THEN NaT ELSE parse_iso(strip(cell))

\* Series.dt.to_period("M")
to_period(ts) == IF ts = NaT THEN NaT ELSE <<ts[1], ts[2], 0>>

(***************************************************************************)
(* load_data.  A file is [readable, columns, rows]: the header cells and,  *)
(* for every row, one cell per column (text, or NaN for an empty cell).    *)
(* The result is [error, df]; df is a sequence of records.  Columns the    *)
(* script never reads are not carried into df.                             *)
(***************************************************************************)
BOAT_NAME == <<"b","o","a","t","_","n","a","m","e">>

BOAT_ISSUE == <<"b","o","a","t","_","i","s","s","u","e">>

BOAT_ISSUE_CLASS_SRC == <<"b","o","a","t","_","i","s","s","u","e","_","(","c","l","a","s","s",")">>

DATE == <<"d","a","t","e">>

NoError == [kind |-> "", at |-> ""]

Raise(kind, at) == [kind |-> kind, at |-> at]

Occurrences(name, cols) == Cardinality({j \in DOMAIN cols : cols[j] = name})

ColumnCells(f, cols, name) ==
    LET j == IndexOf(name, cols) IN [i \in DOMAIN f.rows |-> f.rows[i][j]]

\* An all-empty column of a non-empty sheet is read as float64; .str rejects it.
HasStrAccessor(cells) == cells = <<>> \/ \E i \in DOMAIN cells : cells[i] # NaN

\* What df[name].str raises, "" when it raises nothing.
StrColumnError(f, cols, name) ==
    IF Occurrences(name, cols) = 0 THEN "KeyError"
    ELSE IF Occurrences(name, cols) > 1 THEN "AttributeError"
    ELSE IF ~HasStrAccessor(ColumnCells(f, cols, name)) THEN "AttributeError"
    ELSE ""

DateColumnError(cols) ==
    IF Occurrences(DATE, cols) = 0 THEN "KeyError"
    ELSE IF Occurrences(DATE, cols) > 1 THEN "ValueError"
    ELSE ""

FirstError(errs) ==
    LET bad == SelectSeq(errs, LAMBDA e : e # "") IN
    IF bad = <<>> THEN "" ELSE Head(bad)

load_data(f) ==
    IF ~f.readable THEN [error |-> Raise("ValueError", "load_data"), df |-> <<>>]
    ELSE
    LET cols == [j \in DOMAIN f.columns |-> normalize_column(f.columns[j])]
        err  == FirstError(<<StrColumnError(f, cols, BOAT_NAME),
                             StrColumnError(f, cols, BOAT_ISSUE),
                             StrColumnError(f, cols, BOAT_ISSUE_CLASS_SRC),
                             DateColumnError(cols)>>)
    IN  IF err # "" THEN [error |-> Raise(err, "load_data"), df |-> <<>>]
        ELSE
        LET names  == ColumnCells(f, cols, BOAT_NAME)
            issues == ColumnCells(f, cols, BOAT_ISSUE)
            class  == ColumnCells(f, cols, BOAT_ISSUE_CLASS_SRC)
            dates  == ColumnCells(f, cols, DATE)
        IN  [error |-> NoError,
             df |-> [i \in DOMAIN f.rows |->
                        [boat_name        |-> str_lower(str_strip(names[i])),
                         boat_issue       |-> str_strip(issues[i]),
                         boat_issue_class |-> str_title(str_strip(class[i])),
                         date             |-> to_datetime(dates[i]),
                         ai_category      |-> <<>>]]]

(***************************************************************************)
(* ai_cluster_issues.  TfidfVectorizer tokenises each text into lowercase  *)
(* words of two or more word characters and drops the stop words; it       *)
(* raises ValueError when no word is left in any text.  KMeans raises      *)
(* ValueError when it gets fewer samples than clusters.  The labels it     *)
(* returns are not computed here: any labelling in 0..n_clusters-1 that    *)
(* gives texts with the same words the same label is possible.             *)
(***************************************************************************)
n_clusters == 6

\* The words of ENGLISH_STOP_WORDS that occur in the texts of the model.
StopWords == {<<"t","h","e">>, <<"i","s">>, <<"a","n","d">>}

IsWordChar(c) == IsLetter(c) \/ IsDigit(c) \/ c = "_"

Flush(cur) == IF Len(cur) >= 2 THEN <<cur>> ELSE <<>>

RECURSIVE tokens(_, _)
tokens(s, cur) ==
    IF s = <<>> THEN Flush(cur)
    ELSE IF IsWordChar(Head(s)) THEN tokens(Tail(s), Append(cur, lower_char(Head(s))))
    ELSE Flush(cur) \o tokens(Tail(s), <<>>)

analyze(text) == SelectSeq(tokens(text, <<>>), LAMBDA t : t \notin StopWords)

\* df["boat_issue"].notna()
notna(d) == {i \in DOMAIN d : d[i].boat_issue # NaN}

\* df["boat_issue"].dropna().tolist()
RECURSIVE issue_texts(_)
issue_texts(d) ==
    IF d = <<>> THEN <<>>
    ELSE LET rest == issue_texts(SubSeq(d, 1, Len(d) - 1)) IN
         IF d[Len(d)].boat_issue # NaN THEN Append(rest, d[Len(d)].boat_issue) ELSE rest

\* What fit_transform and fit_predict raise on these texts, "" when nothing.
fit_error(texts, k) ==
    IF \A i \in DOMAIN texts : analyze(texts[i]) = <<>> THEN "ValueError"
    ELSE IF Len(texts) < k THEN "ValueError"
    ELSE ""

\* The label sequences fit_predict can return for these texts.
fit_predict(texts, k) ==
    LET keys == {analyze(texts[i]) : i \in DOMAIN texts} IN
    {[i \in DOMAIN texts |-> lab[analyze(texts[i])]] : lab \in [keys -> 0..(k - 1)]}

\* Mutant of assign_labels: a row takes the label at its own position in the
\* table, not at its position among the rows that have a text.
assign_labels_by_position(d, cl) ==
    [i \in DOMAIN d |->
        IF i \in notna(d)
        THEN [d[i] EXCEPT !.ai_category = <<cl[IF i < Len(cl) THEN i ELSE Len(cl)]>>]
        ELSE d[i]]

\* The position of row i among the rows the mask selects.
MaskRank(d, i) == Cardinality({j \in notna(d) : j <= i})

\* df.loc[df["boat_issue"].notna(), "ai_category"] = clusters
assign_labels(d, cl) ==
    [i \in DOMAIN d |->
        IF i \in notna(d)
        THEN [d[i] EXCEPT !.ai_category = <<cl[MaskRank(d, i)]>>]
        ELSE d[i]]

(***************************************************************************)
(* The summaries: Series.value_counts().head(10) and                       *)
(* groupby(date.dt.to_period("M")).size().  value_counts drops missing     *)
(* values, counts the rest and sorts by count, largest first; values with  *)
(* equal counts stay in the order they first occur.                        *)
(***************************************************************************)
HEAD_ROWS == 10

dropna(col) == SelectSeq(col, LAMBDA v : v # NaN)

RECURSIVE unique(_)
unique(col) ==
    IF col = <<>> THEN <<>>
    ELSE LET rest == unique(SubSeq(col, 1, Len(col) - 1))
             v    == col[Len(col)]
         IN  IF \E i \in DOMAIN rest : rest[i] = v THEN rest ELSE Append(rest, v)

occurrences(col, v) == Cardinality({i \in DOMAIN col : col[i] = v})

RemoveAt(s, i) == SubSeq(s, 1, i - 1) \o SubSeq(s, i + 1, Len(s))

RECURSIVE sort_by_count(_)
sort_by_count(es) ==
    IF es = <<>> THEN <<>>
    ELSE LET top == CHOOSE i \in DOMAIN es :
                        /\ \A j \in DOMAIN es : es[j].count <= es[i].count
                        /\ \A j \in 1..(i - 1) : es[j].count < es[i].count
         IN  <<es[top]>> \o sort_by_count(RemoveAt(es, top))

value_counts(col) ==
    LET c == dropna(col)
        u == unique(c)
    IN  sort_by_count([i \in DOMAIN u |-> [label |-> u[i], count |-> occurrences(c, u[i])]])

\* Mutant of head: nothing is cut off.
head_all(s, n) == s

head(s, n) == SubSeq(s, 1, IF Len(s) < n THEN Len(s) ELSE n)

\* df["boat_issue_class"].value_counts().head(10)
top_issue_classes(d) == head(value_counts([i \in DOMAIN d |-> d[i].boat_issue_class]), HEAD_ROWS)

\* df["boat_name"].value_counts().head(10)
top_boat_names(d) == head(value_counts([i \in DOMAIN d |-> d[i].boat_name]), HEAD_ROWS)

PeriodOrd(p) == p[1] * 12 + p[2]

RECURSIVE sort_periods(_)
sort_periods(S) ==
    IF S = {} THEN <<>>
    ELSE LET first == CHOOSE p \in S : \A q \in S : PeriodOrd(p) <= PeriodOrd(q)
         IN  <<first>> \o sort_periods(S \ {first})

\* Mutant of group_keys: the rows without a date make a group of their own.
group_keys_keepna(d) == {to_period(d[i].date) : i \in DOMAIN d}

\* The groups groupby makes: rows whose key is NaT belong to no group.
group_keys(d) == {to_period(d[i].date) : i \in DOMAIN d} \ {NaT}

\* df.groupby(df["date"].dt.to_period("M")).size()
issues_over_time(d) ==
    LET ks == sort_periods(group_keys(d)) IN
    [i \in DOMAIN ks |->
        [month |-> ks[i],
         count |-> Cardinality({j \in DOMAIN d : to_period(d[j].date) = ks[i]})]]

(***************************************************************************)
(* The category browser: the selectbox offers the sorted distinct labels   *)
(* and, on a run of the script, returns the first one (None when there is  *)
(* none); the table shows the rows that carry it.                          *)
(***************************************************************************)
RECURSIVE sorted(_)
sorted(S) ==
    IF S = {} THEN <<>>
    ELSE LET first == CHOOSE x \in S : \A y \in S : x <= y
         IN  <<first>> \o sorted(S \ {first})

category_options(d) ==
    sorted({d[i].ai_category[1] : i \in {j \in DOMAIN d : d[j].ai_category # <<>>}})

category_browser(d) ==
    LET opts     == category_options(d)
        category == IF opts = <<>> THEN <<>> ELSE <<opts[1]>>
        shown    == SelectSeq(d, LAMBDA r : category # <<>> /\ r.ai_category = category)
    IN  [options  |-> opts,
         category |-> category,
         rows     |-> [i \in DOMAIN shown |->
                          [boat_name        |-> shown[i].boat_name,
                           boat_issue_class |-> shown[i].boat_issue_class,
                           boat_issue       |-> shown[i].boat_issue]]]

NoBrowser == [options |-> <<>>, category |-> <<>>, rows |-> <<>>]

(***************************************************************************)
(* export_pdf: the cells written, in order.  The text of the timestamp is  *)
(* the clock's and is not part of the model.                               *)
(***************************************************************************)
Line(kind, label, count) == [kind |-> kind, label |-> label, count |-> count]

EntryLines(es) == [i \in DOMAIN es |-> Line("entry", es[i].label, es[i].count)]

\* Mutant of export_pdf: nothing is written for an empty table.
export_pdf_unless_empty(d) ==
    IF d = <<>> THEN <<>>
    ELSE <<Line("title", <<>>, 0), Line("generated", <<>>, 0), Line("top_issues", <<>>, 0)>>
         \o EntryLines(head(value_counts([i \in DOMAIN d |-> d[i].boat_issue_class]), HEAD_ROWS))
         \o <<Line("top_boats", <<>>, 0)>>
         \o EntryLines(head(value_counts([i \in DOMAIN d |-> d[i].boat_name]), HEAD_ROWS))

export_pdf(d) ==
    <<Line("title", <<>>, 0), Line("generated", <<>>, 0), Line("top_issues", <<>>, 0)>>
    \o EntryLines(head(value_counts([i \in DOMAIN d |-> d[i].boat_issue_class]), HEAD_ROWS))
    \o <<Line("top_boats", <<>>, 0)>>
    \o EntryLines(head(value_counts([i \in DOMAIN d |-> d[i].boat_name]), HEAD_ROWS))

(***************************************************************************)
(* ai_cluster_issues(df, n_clusters): the outcomes of one call.            *)
(***************************************************************************)
ai_cluster_issues(d, k) ==
    LET texts == issue_texts(d)
        err   == fit_error(texts, k)
    IN  IF err # ""
        THEN {[error |-> Raise(err, "ai_cluster_issues"), df |-> d, clusters |-> <<>>]}
        ELSE {[error |-> NoError, df |-> assign_labels(d, cl), clusters |-> cl] :
                 cl \in fit_predict(texts, k)}

(***************************************************************************)
(* The spreadsheets the script is run on.  A row is                        *)
(* <<boat name, boat issue, boat issue (class), date>>, as typed.          *)
(***************************************************************************)
MaxPrefix == 2

MaxPad == 6

MaxRows == 4

MaxDistinct == 12

MaxExtra == 2

\* The four columns, in the spellings load_data accepts.
HeaderMessy ==
    <<<<" ","b","o","a","t","_","n","a","m","e"," ">>,
      <<"B","O","A","T"," ","I","S","S","U","E">>,
      <<"B","o","a","t","_","I","s","s","u","e"," ","(","c","l","a","s","s",")">>,
      <<"D","A","T","E"," ">>>>

\* Two spaces between "Boat" and "Name".
HeaderDoubleSpace ==
    <<<<"B","o","a","t"," "," ","N","a","m","e">>,
      <<"B","o","a","t"," ","I","s","s","u","e">>,
      <<"B","o","a","t"," ","I","s","s","u","e"," ","(","C","l","a","s","s",")">>,
      <<"D","a","t","e">>>>

\* No date column.
HeaderNoDate ==
    <<<<"B","o","a","t"," ","N","a","m","e">>,
      <<"B","o","a","t"," ","I","s","s","u","e">>,
      <<"B","o","a","t"," ","I","s","s","u","e"," ","(","C","l","a","s","s",")">>,
      <<"W","h","e","n">>>>

RowNoIssue ==
    <<<<" ","A","l">>,
      NaN,
      <<"h","u","l","l"," ">>,
      <<"2","0","2","3","-","0","1","-","0","5">>>>

RowBlankIssue ==
    <<<<"B","O">>,
      <<" "," ">>,
      <<"r","i","g">>,
      <<"n","/","a">>>>

RowLeak ==
    <<<<"b","o"," ">>,
      <<" ","L","e","a","k">>,
      <<"H","U","L","L">>,
      <<"2","0","2","3","-","0","2","-","1","0">>>>

RowStopWords ==
    <<<<"a","l">>,
      <<"t","h","e">>,
      <<"R","i","g">>,
      <<"2","0","2","3","-","0","2","-","3","0">>>>

RowPad ==
    <<<<"a","l">>,
      <<"l","e","a","k">>,
      <<"h","u","l","l">>,
      <<"2","0","2","3","-","0","1","-","2","0">>>>

RowNoDate ==
    <<<<"a","l">>,
      <<"o","i","l"," ","l","e","a","k">>,
      <<"h","u","l","l">>,
      NaN>>

RowNoName ==
    <<NaN,
      <<"l","e","a","k">>,
      <<" ","r","i","g">>,
      <<"2","0","2","4","-","0","2","-","2","9">>>>

SeqsUpTo(S, n) == UNION {[1..m -> S] : m \in 0..n}

Repeat(x, n) == [i \in 1..n |-> x]

Sheet(columns, rows) == [readable |-> TRUE, columns |-> columns, rows |-> rows]

Unreadable == [readable |-> FALSE, columns |-> <<>>, rows |-> <<>>]

ScriptRows == {RowNoIssue, RowBlankIssue, RowLeak, RowStopWords}

ScriptTables ==
    {p \o Repeat(RowPad, k) : p \in SeqsUpTo(ScriptRows, MaxPrefix), k \in 0..MaxPad}

ScriptFiles ==
    {Sheet(h, t) : h \in {HeaderMessy, HeaderDoubleSpace, HeaderNoDate},
                   t \in ScriptTables}
    \cup {Unreadable}

\* Sheets with up to MaxDistinct distinct boats and classes: row i names boat i
\* and class m + 1 - i, and boat x is reported e more times.
MonthText(i) ==
    LET mm == ((i - 1) % 12) + 1 IN
    <<"2","0","2","3","-", DigitChars[(mm \div 10) + 1], DigitChars[(mm % 10) + 1], "-","0","1">>

WideRow(i, m) ==
    <<<<" ", UpperChars[i]>>, <<"l","e","a","k">>, <<LowerChars[m + 1 - i], " ">>, MonthText(i)>>

WideTables ==
    {[i \in 1..m |-> WideRow(i, m)] \o Repeat(WideRow(x, m), e) :
        <<m, x, e>> \in {t \in (1..MaxDistinct) \X (1..MaxDistinct) \X (0..MaxExtra) : t[2] <= t[1]}}

ReportRows == {RowNoIssue, RowBlankIssue, RowLeak, RowStopWords, RowNoDate, RowNoName}

ReportFiles ==
    {Sheet(HeaderMessy, t) : t \in SeqsUpTo(ReportRows, MaxRows) \cup WideTables}

(***************************************************************************)
(* The script, statement by statement.  An exception ends the run.         *)
(***************************************************************************)
Start(f, at, d) ==
    /\ file = f
    /\ pc = at
    /\ df = d
    /\ error = NoError
    /\ clusters = <<>>
    /\ top_issues = <<>>
    /\ top_boats = <<>>
    /\ timeline = <<>>
    /\ browser = NoBrowser
    /\ pdf = <<>>

Init == \E f \in ScriptFiles : Start(f, "load", <<>>)

Crash(e) ==
    /\ pc' = "crashed"
    /\ error' = e

\* df = load_data(uploaded_file) or load_data(DEFAULT_FILE)
LoadData ==
    /\ pc = "load"
    /\ LET r == load_data(file) IN
       IF r.error # NoError
       THEN Crash(r.error) /\ UNCHANGED df
       ELSE df' = r.df /\ pc' = "cluster" /\ UNCHANGED error
    /\ UNCHANGED <<file, clusters, top_issues, top_boats, timeline, browser, pdf>>

\* df = ai_cluster_issues(df)
AiClusterIssues ==
    /\ pc = "cluster"
    /\ \E r \in ai_cluster_issues(df, n_clusters) :
       IF r.error # NoError
       THEN Crash(r.error) /\ UNCHANGED <<df, clusters>>
       ELSE df' = r.df /\ clusters' = r.clusters /\ pc' = "top_issues" /\ UNCHANGED error
    /\ UNCHANGED <<file, top_issues, top_boats, timeline, browser, pdf>>

PlotTopIssues ==
    /\ pc = "top_issues"
    /\ top_issues' = top_issue_classes(df)
    /\ pc' = "top_boats"
    /\ UNCHANGED <<file, df, error, clusters, top_boats, timeline, browser, pdf>>

PlotTopBoats ==
    /\ pc = "top_boats"
    /\ top_boats' = top_boat_names(df)
    /\ pc' = "timeline"
    /\ UNCHANGED <<file, df, error, clusters, top_issues, timeline, browser, pdf>>

PlotTimeline(next) ==
    /\ pc = "timeline"
    /\ timeline' = issues_over_time(df)
    /\ pc' = next
    /\ UNCHANGED <<file, df, error, clusters, top_issues, top_boats, browser, pdf>>

CategoryBrowser ==
    /\ pc = "browser"
    /\ browser' = category_browser(df)
    /\ pc' = "export"
    /\ UNCHANGED <<file, df, error, clusters, top_issues, top_boats, timeline, pdf>>

\* pdf_file = export_pdf(df), offered by the download button
ExportPdf ==
    /\ pc = "export"
    /\ pdf' = export_pdf(df)
    /\ pc' = "done"
    /\ UNCHANGED <<file, df, error, clusters, top_issues, top_boats, timeline, browser>>

Next ==
    \/ LoadData
    \/ AiClusterIssues
    \/ PlotTopIssues
    \/ PlotTopBoats
    \/ PlotTimeline("browser")
    \/ CategoryBrowser
    \/ ExportPdf

Spec == Init /\ [][Next]_vars

(***************************************************************************)
(* The reporting functions on their own: plot_top_issues, plot_top_boats,  *)
(* plot_timeline and export_pdf called on the table load_data makes of any *)
(* sheet, the empty one included.                                          *)
(***************************************************************************)
InitReport ==
    \E f \in ReportFiles :
        /\ load_data(f).error = NoError
        /\ Start(f, "top_issues", load_data(f).df)

NextReport ==
    \/ PlotTopIssues
    \/ PlotTopBoats
    \/ PlotTimeline("export")
    \/ ExportPdf

SpecReport == InitReport /\ [][NextReport]_vars

(***************************************************************************)
(* Vocabulary of the properties.                                           *)
(***************************************************************************)
Loaded == pc \notin {"load", "crashed"} \/ (pc = "crashed" /\ error.at # "load_data")

Clustered == pc \in {"top_issues", "top_boats", "timeline", "browser", "export", "done"}

IssuesDrawn == pc \in {"top_boats", "timeline", "browser", "export", "done"}

BoatsDrawn == pc \in {"timeline", "browser", "export", "done"}

TimelineDrawn == pc \in {"browser", "export", "done"}

Columns(f) == [j \in DOMAIN f.columns |-> normalize_column(f.columns[j])]

RequiredColumns == {BOAT_NAME, BOAT_ISSUE, BOAT_ISSUE_CLASS_SRC, DATE}

\* The rows with an issue text, in table order.
RECURSIVE IssueRows(_)
IssueRows(d) ==
    IF d = <<>> THEN <<>>
    ELSE LET rest == IssueRows(SubSeq(d, 1, Len(d) - 1)) IN
         IF d[Len(d)].boat_issue = NaN THEN rest ELSE Append(rest, Len(d))

RECURSIVE SumCounts(_)
SumCounts(s) == IF s = <<>> THEN 0 ELSE s[1].count + SumCounts(Tail(s))

Smaller(a, b) == IF a < b THEN a ELSE b

\* The records with a description that is not empty after trimming.
Described(d) == {i \in DOMAIN d : d[i].boat_issue # NaN /\ d[i].boat_issue # <<>>}

\* Clustering was reached with some descriptions to cluster, but fewer than
\* n_clusters of them.
ClusteringStarved ==
    /\ Loaded
    /\ pc # "cluster"
    /\ Cardinality(Described(df)) < n_clusters
    /\ Len(IssueRows(df)) < n_clusters
    /\ \E i \in Described(df) : analyze(df[i].boat_issue) # <<>>

\* C1: after ai_cluster_issues returns, a record has an ai_category exactly
\* when its boat_issue is present and not empty after trimming, and the
\* category is an integer in 0..n_clusters-1.
C1_CategoryIffNonEmptyIssue ==
    Clustered =>
        \A i \in DOMAIN df :
            /\ df[i].ai_category # <<>> <=> (df[i].boat_issue # NaN /\ df[i].boat_issue # <<>>)
            /\ df[i].ai_category # <<>> => df[i].ai_category[1] \in 0..(n_clusters - 1)

\* What the mask of ai_cluster_issues does give: a record has an ai_category
\* exactly when its boat_issue is not missing, the empty text included.
CategoryIffIssuePresent ==
    Clustered =>
        \A i \in DOMAIN df :
            /\ df[i].ai_category # <<>> <=> df[i].boat_issue # NaN
            /\ df[i].ai_category # <<>> => df[i].ai_category[1] \in 0..(n_clusters - 1)

\* C2: when clustering fails for want of descriptions (fewer than n_clusters),
\* the run does not crash: the three charts are drawn and the category browser
\* offers no options.
C2_StarvedClusteringKeepsCharts ==
    ClusteringStarved =>
        /\ pc # "crashed"
        /\ TimelineDrawn => browser.options = <<>>

\* C3: ai_cluster_issues on fewer than n_clusters descriptions fails with a
\* ClusteringError and labels no record.
C3_StarvedClusteringRaisesClusteringError ==
    ClusteringStarved =>
        /\ pc = "crashed"
        /\ error = Raise("ClusteringError", "ai_cluster_issues")
        /\ \A i \in DOMAIN df : df[i].ai_category = <<>>

\* The column name the claim says a header stands for: case folded, trimmed,
\* every run of spaces and underscores between words read as one underscore.
RECURSIVE SqueezeUnderscores(_)
SqueezeUnderscores(s) ==
    IF Len(s) < 2 THEN s
    ELSE IF s[1] = "_" /\ s[2] = "_" THEN SqueezeUnderscores(Tail(s))
    ELSE <<s[1]>> \o SqueezeUnderscores(Tail(s))

FieldOf(header) == SqueezeUnderscores(replace_space(lower(strip(header))))

\* C4: a sheet whose headers spell the four required columns up to letter
\* case, surrounding whitespace and the number of spaces or underscores between
\* words is loaded: load_data finds every required column.
C4_HeadersMatchUpToCaseAndSpacing ==
    (/\ pc # "load"
     /\ file.readable
     /\ \A r \in RequiredColumns : \E j \in DOMAIN file.columns : FieldOf(file.columns[j]) = r)
    => ~(pc = "crashed" /\ error = Raise("KeyError", "load_data"))

\* C5: load_data fails with a LoadError when a required column is absent after
\* normalization or the input is no table, and then there is no table and no
\* later step has run.
C5_MissingColumnRaisesLoadError ==
    (/\ pc # "load"
     /\ \/ ~file.readable
        \/ \E r \in RequiredColumns : Occurrences(r, Columns(file)) = 0)
    => /\ pc = "crashed"
       /\ error = Raise("LoadError", "load_data")
       /\ df = <<>> /\ clusters = <<>>
       /\ top_issues = <<>> /\ top_boats = <<>> /\ timeline = <<>> /\ pdf = <<>>

(***************************************************************************)
(* The summaries, stated without value_counts and groupby.                 *)
(***************************************************************************)
Values(col) == {col[i] : i \in DOMAIN col} \ {NaN}

Carrying(col, v) == Cardinality({i \in DOMAIN col : col[i] = v})

ClassColumn(d) == [i \in DOMAIN d |-> d[i].boat_issue_class]

BoatColumn(d) == [i \in DOMAIN d |-> d[i].boat_name]

IsTopSummary(summary, col) ==
    /\ Len(summary) = Smaller(HEAD_ROWS, Cardinality(Values(col)))
    /\ \A i \in DOMAIN summary :
        /\ summary[i].label \in Values(col)
        /\ summary[i].count = Carrying(col, summary[i].label)
    /\ \A i, j \in DOMAIN summary :
        /\ i < j => summary[i].count >= summary[j].count
        /\ i # j => summary[i].label # summary[j].label
    /\ \A v \in Values(col) :
        (\A i \in DOMAIN summary : summary[i].label # v)
        => \A i \in DOMAIN summary : Carrying(col, v) <= summary[i].count

Entries(lines, from, n) == [i \in 1..n |-> [label |-> lines[from + i].label, count |-> lines[from + i].count]]

\* C6: the top issue-class and top-boat summaries hold min(10, distinct values)
\* entries, each with the number of records carrying its value, in
\* non-increasing order of count, no omitted value outnumbering an included
\* one; and the document lists the same two sequences as the charts.
C6_TopSummaries ==
    /\ IssuesDrawn => IsTopSummary(top_issues, ClassColumn(df))
    /\ BoatsDrawn => IsTopSummary(top_boats, BoatColumn(df))
    /\ pc = "done" =>
        /\ Len(pdf) = 4 + Len(top_issues) + Len(top_boats)
        /\ Entries(pdf, 3, Len(top_issues)) = top_issues
        /\ Entries(pdf, 4 + Len(top_issues), Len(top_boats)) = top_boats

\* A table with more than ten boats and more than ten classes, one of them
\* reported more often than the rest, after both charts and the document.
C6_Witness ==
    /\ pc = "done"
    /\ Cardinality(Values(BoatColumn(df))) > HEAD_ROWS
    /\ Cardinality(Values(ClassColumn(df))) > HEAD_ROWS
    /\ Len(top_boats) = HEAD_ROWS
    /\ top_boats[1].count > top_boats[2].count
    /\ top_boats[2].count = top_boats[3].count
    /\ top_boats[1].label # df[1].boat_name

Months(d) == {<<d[i].date[1], d[i].date[2], 0>> : i \in {j \in DOMAIN d : d[j].date # NaT}}

InMonth(d, p) == {i \in DOMAIN d : d[i].date # NaT /\ d[i].date[1] = p[1] /\ d[i].date[2] = p[2]}

\* C7: the timeline has one bucket for every calendar month some record's date
\* falls in, each counting the records of its month, and the counts add up to
\* the number of records that have a date.
C7_Timeline ==
    TimelineDrawn \/ pc = "export" =>
        /\ {timeline[i].month : i \in DOMAIN timeline} = Months(df)
        /\ Len(timeline) = Cardinality(Months(df))
        /\ \A i \in DOMAIN timeline :
            timeline[i].count = Cardinality(InMonth(df, timeline[i].month))
        /\ \A i, j \in DOMAIN timeline :
            i < j => PeriodOrd(timeline[i].month) < PeriodOrd(timeline[j].month)
        /\ SumCounts(timeline) = Cardinality({i \in DOMAIN df : df[i].date # NaT})

\* A table with dated records in two months and a record without a date.
C7_Witness ==
    /\ pc = "done"
    /\ Len(timeline) >= 2
    /\ \E i \in DOMAIN df : df[i].date = NaT
    /\ \E i \in DOMAIN timeline : timeline[i].count >= 2

\* C8: export_pdf writes the title, the timestamp line and the two list
\* headings whatever the size of the table, and under each heading one line
\* per distinct value, ten at most: none for an empty table.
C8_ExportAnySize ==
    pc = "done" =>
        LET n1 == Smaller(HEAD_ROWS, Cardinality(Values(ClassColumn(df))))
            n2 == Smaller(HEAD_ROWS, Cardinality(Values(BoatColumn(df))))
        IN  /\ Len(pdf) = 4 + n1 + n2
            /\ pdf[1].kind = "title"
            /\ pdf[2].kind = "generated"
            /\ pdf[3].kind = "top_issues"
            /\ \A i \in 1..n1 : pdf[3 + i].kind = "entry"
            /\ pdf[4 + n1].kind = "top_boats"
            /\ \A i \in 1..n2 : pdf[4 + n1 + i].kind = "entry"

\* The document of the empty table.
C8_Witness ==
    /\ pc = "done"
    /\ df = <<>>
    /\ Len(pdf) = 4

(***************************************************************************)
(* Dates that do not parse.                                                *)
(***************************************************************************)
\* A date cell that holds text but no calendar date.
Unparseable(cell) == cell # NaN /\ parse_iso(strip(cell)) = NaT

\* The rows of sheet f whose cell in column j is a date that does not parse.
BadDateRows(f, j) == {i \in DOMAIN f.rows : Unparseable(f.rows[i][j])}

ValidDate == <<"2","0","2","3","-","0","3","-","1","5">>

\* The same sheet with a date that parses in place of every one that does not.
WithValidDates(f, j) ==
    [f EXCEPT !.rows =
        [i \in DOMAIN f.rows |->
            [f.rows[i] EXCEPT ![j] = IF Unparseable(@) THEN ValidDate ELSE @]]]

\* C9: a date that cannot be parsed fails no step.  The run ends where, and
\* as, the run on the sheet with valid dates ends; the record stays in the
\* table with the missing date, is counted by both top summaries and by the
\* document, gets an ai_category like any record with an issue text, and is
\* left out of the timeline only.
C9_BadDateOnlyLeavesTimeline ==
    \A cols \in {IF file.readable THEN Columns(file) ELSE <<>>} :
    (pc # "load" /\ Occurrences(DATE, cols) = 1) =>
    \A bad \in {BadDateRows(file, IndexOf(DATE, cols))} :
    \A same \in {load_data(WithValidDates(file, IndexOf(DATE, cols)))} :
    \A sdf \in {same.df} :
        /\ (pc = "crashed" /\ error.at = "load_data") <=> same.error # NoError
        /\ pc = "crashed" /\ error.at = "load_data" => error = same.error
        /\ pc = "crashed" /\ error.at = "ai_cluster_issues" =>
             error = Raise(fit_error(issue_texts(sdf), n_clusters), "ai_cluster_issues")
        /\ Loaded =>
            /\ Len(df) = Len(file.rows)
            /\ \A i \in DOMAIN df :
                /\ i \in bad => df[i].date = NaT
                /\ i \notin bad => df[i].date = sdf[i].date
                /\ df[i].boat_name = sdf[i].boat_name
                /\ df[i].boat_issue = sdf[i].boat_issue
                /\ df[i].boat_issue_class = sdf[i].boat_issue_class
        /\ Clustered =>
            \A i \in bad : df[i].ai_category # <<>> <=> df[i].boat_issue # NaN
        /\ IssuesDrawn => \A col \in {ClassColumn(sdf)} : IsTopSummary(top_issues, col)
        /\ BoatsDrawn => \A col \in {BoatColumn(sdf)} : IsTopSummary(top_boats, col)
        /\ TimelineDrawn =>
            /\ SumCounts(timeline) = Cardinality({i \in DOMAIN sdf : sdf[i].date # NaT} \ bad)
            /\ \A i \in DOMAIN timeline :
                timeline[i].count = Cardinality(InMonth(sdf, timeline[i].month) \ bad)
        /\ pc = "done" =>
            /\ Len(pdf) = 4 + Len(top_issues) + Len(top_boats)
            /\ Entries(pdf, 3, Len(top_issues)) = top_issues
            /\ Entries(pdf, 4 + Len(top_issues), Len(top_boats)) = top_boats

\* A finished run on a sheet with a date that does not parse, on a record that
\* has an issue text and got a category.
C9_Witness ==
    /\ pc = "done"
    /\ \E i \in BadDateRows(file, IndexOf(DATE, Columns(file))) :
        df[i].ai_category # <<>> /\ df[i].date = NaT
    /\ timeline # <<>>
    /\ SumCounts(timeline) < Len(df)

\* C10: the labels go back in order.  The i-th record with an issue text gets
\* the i-th label the clustering returned, whatever records without a text lie
\* in between, and no other field of any record changes.
C10_LabelsThreadedInOrder ==
    Clustered =>
    \A rows \in {IssueRows(df)} :
    \A was \in {load_data(file).df} :
        /\ Len(clusters) = Len(rows)
        /\ \A r \in DOMAIN rows : df[rows[r]].ai_category = <<clusters[r]>>
        /\ \A i \in DOMAIN df : df[i].boat_issue = NaN => df[i].ai_category = <<>>
        /\ Len(df) = Len(was)
        /\ \A i \in DOMAIN df : df[i] = [was[i] EXCEPT !.ai_category = df[i].ai_category]

\* A record without a text between two records with one, which got different
\* labels.
C10_Witness ==
    /\ Clustered
    /\ \E i, j, k \in DOMAIN df :
        /\ i < j /\ j < k
        /\ df[i].boat_issue # NaN /\ df[j].boat_issue = NaN /\ df[k].boat_issue # NaN
        /\ df[i].ai_category # df[k].ai_category

====
